---------------------------- MODULE Spec2Model ----------------------------
(***************************************************************************)
(* TCC_QD: gamma-method (EN 1995-1-1 Annex B) calculator for a             *)
(* timber-concrete composite beam.                                         *)
(*                                                                         *)
(* Three programs are modelled:                                            *)
(*   - the function library src/TCC_EC5_calc.py and the elevation views   *)
(*     of src/TCC_graphics.py and src/TCC_plots.py: a caller invokes one   *)
(*     of the functions with arguments and receives the return value       *)
(*     (specification Spec);                                               *)
(*   - the dashboard script src/TCC_app.py, whose module-level statements  *)
(*     run top to bottom on the sidebar inputs, show values on the page    *)
(*     and end with the report button (specification AppSpec);             *)
(*   - a caller that chains the library functions into full runs and has   *)
(*     a run written up by src/TCC_report.py or src/TCC_Report.py          *)
(*     (specification PipelineSpec).                                       *)
(*                                                                         *)
(* Numbers.  Python floats are modelled as exact rationals <<n, d>> in     *)
(* lowest terms with d > 0; IEEE rounding is not modelled.  Forces are     *)
(* measured in giganewtons, so that a modulus of 1 GPa = 1000000000 Pa is  *)
(* the rational 1.  np.pi**2 is the rational PiSqNum/PiSqDen.  A division  *)
(* by zero is the value ZeroDivisionError, which every later operation     *)
(* propagates (the exception unwinds).                                     *)
(***************************************************************************)
EXTENDS Integers, Sequences, FiniteSets, TLC

VARIABLES
    \* the library call in progress: function, arguments, return value
    call,
    \* the dashboard script: module-level variables assigned so far, position
    \* in the script, what the page shows, the bytes of the generated report
    app, app_pc, shown, pdf_data,
    \* a caller of the library running the whole calculation: every run so
    \* far (inputs and outputs), the number of runs made before the current
    \* interpreter was started, and the document written for the last run
    runs, started, document

app_vars == <<app, app_pc, shown, pdf_data>>
run_vars == <<runs, started, document>>
vars == <<call, app_vars, run_vars>>

-----------------------------------------------------------------------------
(* Bounds of the model *)

\* widths and heights range over 1..MaxDim
MaxDim == 2
\* elastic moduli range over 1..MaxE
MaxE == 2
\* connector spacing s
MaxSpacing == 2
\* slip modulus k_ser
MaxSlip == 3
\* span L
MaxSpan == 2
\* point load P
MaxLoad == 2
\* gamma arguments are i/MaxGammaDen, i in 1..MaxGammaDen
MaxGammaDen == 3
\* offset arguments a_timber, a_concrete are i/2, i in 1..MaxOffsetNum
MaxOffsetNum == 2
\* num_points ranges over 2..MaxPoints
MaxPoints == 4
\* the dashboard script and a full run of the library sample 50 points per
\* half span; the model samples AppPoints
AppPoints == 3
\* a caller makes at most MaxRuns full runs of the calculation
MaxRuns == 3

-----------------------------------------------------------------------------
(* Exact rational arithmetic standing for Python's float operators *)

RECURSIVE GCD(_, _)
GCD(a, b) == IF b = 0 THEN a ELSE GCD(b, a % b)

Abs(n) == IF n < 0 THEN -n ELSE n

ZeroDivisionError == <<0, 0>>

IsErr(a) == a[2] = 0

\* n/d in lowest terms with a positive denominator (d # 0)
Q(n, d) ==
    LET g == GCD(Abs(n), Abs(d))
        sg == IF d < 0 THEN -1 ELSE 1
    IN  <<sg * (n \div g), sg * (d \div g)>>

QInt(n) == <<n, 1>>

QNeg(a) == IF IsErr(a) THEN ZeroDivisionError ELSE <<-a[1], a[2]>>

QMul(a, b) ==
    IF IsErr(a) \/ IsErr(b) THEN ZeroDivisionError
    ELSE LET g1 == GCD(Abs(a[1]), b[2])
             g2 == GCD(Abs(b[1]), a[2])
         IN  <<(a[1] \div g1) * (b[1] \div g2), (a[2] \div g2) * (b[2] \div g1)>>

QDiv(a, b) ==
    IF IsErr(a) \/ IsErr(b) \/ b[1] = 0 THEN ZeroDivisionError
    ELSE QMul(a, IF b[1] < 0 THEN <<-b[2], -b[1]>> ELSE <<b[2], b[1]>>)

QAdd(a, b) ==
    IF IsErr(a) \/ IsErr(b) THEN ZeroDivisionError
    ELSE LET g == GCD(a[2], b[2])
         IN  Q(a[1] * (b[2] \div g) + b[1] * (a[2] \div g), (a[2] \div g) * b[2])

QSub(a, b) == QAdd(a, QNeg(b))

RECURSIVE QPow(_, _)
QPow(a, n) == IF n = 0 THEN QInt(1) ELSE QMul(a, QPow(a, n - 1))

\* comparisons (both operands are numbers)
QLt(a, b) ==
    LET g == GCD(a[2], b[2])
    IN  a[1] * (b[2] \div g) < b[1] * (a[2] \div g)

QLe(a, b) == a = b \/ QLt(a, b)

QPos(a) == a[1] > 0 /\ a[2] > 0

\* np.pi**2 = 9.8696..., as the convergent 79/8 = 9.875
PiSqNum == 79
PiSqDen == 8
PiSq == Q(PiSqNum, PiSqDen)


-----------------------------------------------------------------------------
(* Python's fixed-point formatting f"{x:.mf}": x rounded to m decimals,    *)
(* ties to the even digit, computed by long division so that no            *)
(* intermediate value exceeds the digits printed.  The result is the       *)
(* printed text: its sign, the digits before and the m digits after the    *)
(* point.                                                                  *)

RECURSIVE Pow10(_)
Pow10(m) == IF m = 0 THEN 1 ELSE 10 * Pow10(m - 1)

\* quotient and remainder of 10*r by d (0 <= r < d), by ten additions of r
\* modulo d: sum is the remainder so far, digit the number of wrap-arounds
RECURSIVE times_ten(_, _, _, _, _)
times_ten(r, d, k, digit, sum) ==
    IF k = 0 THEN <<digit, sum>>
    ELSE IF r >= d - sum
         THEN times_ten(r, d, k - 1, digit + 1, r - (d - sum))
         ELSE times_ten(r, d, k - 1, digit, sum + r)

\* the first m decimals of r/d (0 <= r < d) and the remainder left over
RECURSIVE decimals(_, _, _, _)
decimals(r, d, m, acc) ==
    IF m = 0 THEN <<acc, r>>
    ELSE LET step == times_ten(r, d, 10, 0, 0)
         IN  decimals(step[2], d, m - 1, acc * 10 + step[1])

format_f(x, m) ==
    IF IsErr(x) THEN [sign |-> "", whole |-> "nan", fraction |-> 0]
    ELSE LET n == Abs(x[1])
             d == x[2]
             whole == n \div d
             fr == decimals(n % d, d, m, 0)
             last == IF m = 0 THEN whole ELSE fr[1]
             up == fr[2] > d - fr[2] \/ (fr[2] = d - fr[2] /\ last % 2 = 1)
             fraction == fr[1] + (IF up THEN 1 ELSE 0)
             carry == fraction = Pow10(m)
         IN  [sign |-> IF x[1] < 0 THEN "-" ELSE "",
              whole |-> IF carry THEN whole + 1 ELSE whole,
              fraction |-> IF carry THEN 0 ELSE fraction]

-----------------------------------------------------------------------------
(* src/TCC_EC5_calc.py: the pure functions, computed as the code computes  *)
(* them.  Tuples are Python's returned tuples.                             *)

\* slip: the concrete inertia is taken with the timber height
section_properties_wrong_height(b_timber, h_timber, b_concrete, h_concrete) ==
    <<QMul(b_timber, h_timber),
      QDiv(QMul(b_timber, QPow(h_timber, 3)), QInt(12)),
      QMul(b_concrete, h_concrete),
      QDiv(QMul(b_concrete, QPow(h_timber, 3)), QInt(12))>>

compute_section_properties(b_timber, h_timber, b_concrete, h_concrete) ==
    LET A_timber == QMul(b_timber, h_timber)
        A_concrete == QMul(b_concrete, h_concrete)
        I_timber == QDiv(QMul(b_timber, QPow(h_timber, 3)), QInt(12))
        I_concrete == QDiv(QMul(b_concrete, QPow(h_concrete, 3)), QInt(12))
    IN  <<A_timber, I_timber, A_concrete, I_concrete>>

\* slip: the flexibility term is subtracted
gamma_concrete_minus(E_concrete, A_concrete, s, k_ser, L) ==
    QDiv(QInt(1),
         QSub(QInt(1),
              QDiv(QMul(QMul(QMul(PiSq, E_concrete), A_concrete), s),
                   QMul(k_ser, QPow(L, 2)))))

\* slip: spacing and slip modulus exchanged
gamma_concrete_swapped(E_concrete, A_concrete, s, k_ser, L) ==
    QDiv(QInt(1),
         QAdd(QInt(1),
              QDiv(QMul(QMul(QMul(PiSq, E_concrete), A_concrete), k_ser),
                   QMul(s, QPow(L, 2)))))

\* slip: the factor of the previous run in this interpreter is kept in a
\* module-level variable and returned again
gamma_concrete_remembered(E_concrete, A_concrete, s, k_ser, L) ==
    IF Len(runs) > started
    THEN runs[Len(runs)].outputs.gamma_concrete
    ELSE QDiv(QInt(1),
              QAdd(QInt(1),
                   QDiv(QMul(QMul(QMul(PiSq, E_concrete), A_concrete), s),
                        QMul(k_ser, QPow(L, 2)))))

compute_gamma_concrete(E_concrete, A_concrete, s, k_ser, L) ==
    QDiv(QInt(1),
         QAdd(QInt(1),
              QDiv(QMul(QMul(QMul(PiSq, E_concrete), A_concrete), s),
                   QMul(k_ser, QPow(L, 2)))))

\* slip: only the first term of the denominator is doubled
neutral_axes_first_term_doubled(E_timber, A_timber, E_concrete, A_concrete, h_timber, h_concrete, gamma_concrete) ==
    LET a_timber == QDiv(QMul(QMul(QMul(gamma_concrete, E_concrete), A_concrete),
                              QAdd(h_concrete, h_timber)),
                         QAdd(QMul(QInt(2),
                                   QMul(QMul(gamma_concrete, E_concrete), A_concrete)),
                              QMul(E_timber, A_timber)))
    IN  <<a_timber,
          QAdd(QSub(QDiv(h_timber, QInt(2)), a_timber), QDiv(h_concrete, QInt(2)))>>

\* slip: a_concrete adds a_timber instead of subtracting it
neutral_axes_sign(E_timber, A_timber, E_concrete, A_concrete, h_timber, h_concrete, gamma_concrete) ==
    LET a_timber == QDiv(QMul(QMul(QMul(gamma_concrete, E_concrete), A_concrete),
                              QAdd(h_concrete, h_timber)),
                         QMul(QInt(2),
                              QAdd(QMul(QMul(gamma_concrete, E_concrete), A_concrete),
                                   QMul(E_timber, A_timber))))
    IN  <<a_timber,
          QAdd(QAdd(QDiv(h_timber, QInt(2)), a_timber), QDiv(h_concrete, QInt(2)))>>

compute_neutral_axes(E_timber, A_timber, E_concrete, A_concrete, h_timber, h_concrete, gamma_concrete) ==
    LET numerator == QMul(QMul(QMul(gamma_concrete, E_concrete), A_concrete),
                          QAdd(h_concrete, h_timber))
        denominator == QMul(QInt(2),
                            QAdd(QMul(QMul(gamma_concrete, E_concrete), A_concrete),
                                 QMul(E_timber, A_timber)))
        a_timber == QDiv(numerator, denominator)
        a_concrete == QAdd(QSub(QDiv(h_timber, QInt(2)), a_timber),
                           QDiv(h_concrete, QInt(2)))
    IN  <<a_timber, a_concrete>>

\* slip: the concrete offset term is not scaled by gamma
stiffness_without_gamma(E_timber, I_timber, A_timber, a_timber, E_concrete, I_concrete, A_concrete, a_concrete, gamma_concrete) ==
    QAdd(QAdd(QMul(E_timber, I_timber),
              QMul(QMul(E_timber, A_timber), QPow(a_timber, 2))),
         QAdd(QMul(E_concrete, I_concrete),
              QMul(QMul(E_concrete, A_concrete), QPow(a_concrete, 2))))

compute_effective_bending_stiffness(E_timber, I_timber, A_timber, a_timber, E_concrete, I_concrete, A_concrete, a_concrete, gamma_concrete) ==
    LET part_timber == QAdd(QMul(E_timber, I_timber),
                            QMul(QMul(E_timber, A_timber), QPow(a_timber, 2)))
        part_concrete == QAdd(QMul(E_concrete, I_concrete),
                              QMul(QMul(QMul(gamma_concrete, E_concrete), A_concrete),
                                   QPow(a_concrete, 2)))
    IN  QAdd(part_timber, part_concrete)

\* slip: the shear is taken as P*L/2
moment_and_shear_with_span(P, L) ==
    <<QDiv(QMul(P, L), QInt(4)), QDiv(QMul(P, L), QInt(2))>>

compute_bending_moment_and_shear(P, L) ==
    LET M_mid == QDiv(QMul(P, L), QInt(4))
        V_max == QDiv(P, QInt(2))
    IN  <<M_mid, V_max>>

\* slip: the samples stop one step short of the end (endpoint=False)
linspace_without_endpoint(start, stop, num) ==
    LET step == QDiv(QSub(stop, start), QInt(num))
    IN  [i \in 1..num |-> QAdd(QMul(QInt(i - 1), step), start)]

\* np.linspace(start, stop, num), endpoint included: num samples
\* start + i*step with step = (stop - start)/(num - 1), the last one set to stop
linspace(start, stop, num) ==
    IF num = 1 THEN <<start>>
    ELSE LET step == QDiv(QSub(stop, start), QInt(num - 1))
         IN  [i \in 1..num |->
                 IF i = num THEN stop ELSE QAdd(QMul(QInt(i - 1), step), start)]

\* a[::-1]
Reversed(a) == [i \in 1..Len(a) |-> a[Len(a) + 1 - i]]

\* (P * x**3 / 12 - P * L**2 * x / 16) / EI_eff, for one sample x
\* slip: the two terms of the deflection polynomial are added
deflection_at_plus(EI_eff, P, L, x) ==
    QDiv(QAdd(QDiv(QMul(P, QPow(x, 3)), QInt(12)),
              QDiv(QMul(QMul(P, QPow(L, 2)), x), QInt(16))),
         EI_eff)

\* slip: the span enters the linear term unsquared
deflection_at_span_unsquared(EI_eff, P, L, x) ==
    QDiv(QSub(QDiv(QMul(P, QPow(x, 3)), QInt(12)),
              QDiv(QMul(QMul(P, L), x), QInt(16))),
         EI_eff)

deflection_at(EI_eff, P, L, x) ==
    QDiv(QSub(QDiv(QMul(P, QPow(x, 3)), QInt(12)),
              QDiv(QMul(QMul(P, QPow(L, 2)), x), QInt(16))),
         EI_eff)

\* slip: the right half repeats the left half without reversing it
deflection_not_mirrored(EI_eff, P, L, num_points) ==
    LET x_left == linspace(QInt(0), QDiv(L, QInt(2)), num_points)
        delta_left == [i \in 1..num_points |-> deflection_at(EI_eff, P, L, x_left[i])]
    IN  <<x_left, delta_left, linspace(QDiv(L, QInt(2)), L, num_points), delta_left>>

compute_deflection(EI_eff, P, L, num_points) ==
    LET x_left == linspace(QInt(0), QDiv(L, QInt(2)), num_points)
        delta_left == [i \in 1..num_points |-> deflection_at(EI_eff, P, L, x_left[i])]
        x_right == linspace(QDiv(L, QInt(2)), L, num_points)
        delta_right == Reversed(delta_left)
    IN  <<x_left, delta_left, x_right, delta_right>>

\* compute_stresses_and_forces: the values of the results dictionary
results(E_timber, A_timber, h_timber, f_m_timber, f_t_timber, E_concrete, A_concrete, h_concrete, I_concrete, M_mid, V_max, a_timber, a_concrete, s, EI_eff, gamma_concrete) ==
    LET sigma_timber == QDiv(QMul(QMul(E_timber, a_timber), M_mid), EI_eff)
        sigma_m_timber ==
            QDiv(QMul(QMul(QMul(Q(1, 2), E_timber), h_timber), M_mid), EI_eff)
        utilisation_timber ==
            QAdd(QDiv(sigma_m_timber, f_m_timber), QDiv(sigma_timber, f_t_timber))
        sigma_concrete ==
            QDiv(QMul(QMul(QMul(gamma_concrete, E_concrete), a_concrete), M_mid),
                 EI_eff)
        sigma_m_concrete ==
            QDiv(QMul(QMul(QMul(Q(1, 2), E_concrete), h_concrete), M_mid), EI_eff)
        N_concrete == QMul(sigma_concrete, A_concrete)
        M_concrete == QDiv(QMul(QMul(E_concrete, I_concrete), M_mid), EI_eff)
        h_EC_tau == QAdd(a_timber, QMul(Q(1, 2), h_timber))
        tau_timber_max ==
            QDiv(QMul(QMul(QMul(Q(1, 2), E_timber), QPow(h_EC_tau, 2)), V_max),
                 EI_eff)
        F_connector ==
            QMul(QDiv(QMul(QMul(QMul(QMul(gamma_concrete, E_concrete), A_concrete),
                                a_concrete), s),
                      EI_eff),
                 V_max)
    IN  [sigma_timber |-> sigma_timber,
         sigma_m_timber |-> sigma_m_timber,
         utilisation_timber |-> utilisation_timber,
         sigma_concrete |-> sigma_concrete,
         sigma_m_concrete |-> sigma_m_concrete,
         N_concrete |-> N_concrete,
         M_concrete |-> M_concrete,
         tau_timber_max |-> tau_timber_max,
         F_connector |-> F_connector,
         h_EC_tau |-> h_EC_tau]

\* slip: the two strengths of the utilisation ratio are exchanged
stresses_strengths_swapped(E_timber, A_timber, h_timber, f_m_timber, f_t_timber, E_concrete, A_concrete, h_concrete, I_concrete, M_mid, V_max, a_timber, a_concrete, s, EI_eff, gamma_concrete) ==
    LET r == results(E_timber, A_timber, h_timber, f_m_timber, f_t_timber, E_concrete, A_concrete, h_concrete, I_concrete, M_mid, V_max, a_timber, a_concrete, s, EI_eff, gamma_concrete)
    IN  [r EXCEPT !.utilisation_timber =
            QAdd(QDiv(r.sigma_m_timber, f_t_timber), QDiv(r.sigma_timber, f_m_timber))]

\* slip: the concrete bending moment takes the timber modulus
stresses_moment_timber_modulus(E_timber, A_timber, h_timber, f_m_timber, f_t_timber, E_concrete, A_concrete, h_concrete, I_concrete, M_mid, V_max, a_timber, a_concrete, s, EI_eff, gamma_concrete) ==
    [results(E_timber, A_timber, h_timber, f_m_timber, f_t_timber, E_concrete, A_concrete, h_concrete, I_concrete, M_mid, V_max, a_timber, a_concrete, s, EI_eff, gamma_concrete) EXCEPT !.M_concrete =
        QDiv(QMul(QMul(E_timber, I_concrete), M_mid), EI_eff)]

\* slip: the timber shear stress is averaged over the timber area
stresses_shear_over_area(E_timber, A_timber, h_timber, f_m_timber, f_t_timber, E_concrete, A_concrete, h_concrete, I_concrete, M_mid, V_max, a_timber, a_concrete, s, EI_eff, gamma_concrete) ==
    LET r == results(E_timber, A_timber, h_timber, f_m_timber, f_t_timber, E_concrete, A_concrete, h_concrete, I_concrete, M_mid, V_max, a_timber, a_concrete, s, EI_eff, gamma_concrete)
    IN  [r EXCEPT !.tau_timber_max = QDiv(r.tau_timber_max, A_timber)]

\* slip: the connector force is taken per unit spacing
stresses_force_per_spacing(E_timber, A_timber, h_timber, f_m_timber, f_t_timber, E_concrete, A_concrete, h_concrete, I_concrete, M_mid, V_max, a_timber, a_concrete, s, EI_eff, gamma_concrete) ==
    LET r == results(E_timber, A_timber, h_timber, f_m_timber, f_t_timber, E_concrete, A_concrete, h_concrete, I_concrete, M_mid, V_max, a_timber, a_concrete, s, EI_eff, gamma_concrete)
    IN  [r EXCEPT !.F_connector =
            QMul(QDiv(QMul(QMul(QMul(gamma_concrete, E_concrete), A_concrete),
                           a_concrete),
                      QMul(s, EI_eff)),
                 V_max)]

compute_stresses_and_forces(E_timber, A_timber, h_timber, f_m_timber, f_t_timber, E_concrete, A_concrete, h_concrete, I_concrete, M_mid, V_max, a_timber, a_concrete, s, EI_eff, gamma_concrete) ==
    results(E_timber, A_timber, h_timber, f_m_timber, f_t_timber, E_concrete, A_concrete, h_concrete, I_concrete, M_mid, V_max, a_timber, a_concrete, s, EI_eff, gamma_concrete)

\* compute_stresses_and_forces applied to a tuple of its 16 arguments
stresses_of(args) ==
    compute_stresses_and_forces(args[1], args[2], args[3], args[4], args[5],
                                args[6], args[7], args[8], args[9], args[10],
                                args[11], args[12], args[13], args[14], args[15],
                                args[16])

-----------------------------------------------------------------------------
(* src/TCC_graphics.py and src/TCC_plots.py: the two elevation views.  A    *)
(* drawing is modelled by the x-coordinates of the connector markers it     *)
(* holds, or by the exception that ends the call.                           *)

\* int(x): truncation towards zero
int(x) == IF x[1] < 0 THEN -((-x[1]) \div x[2]) ELSE x[1] \div x[2]

\* math.floor(x): the largest integer not above x
floor(x) ==
    IF x[1] < 0 THEN -(((-x[1]) + x[2] - 1) \div x[2]) ELSE x[1] \div x[2]

\* TCC_graphics.py lines 94-98: no statement of the function divides by s
\* unless s > 0, and scale_x is computed only for a positive width
draw_elevation_view_scaled(L, s) ==
    LET n_conn == IF QPos(s) THEN floor(QDiv(L, s)) ELSE 0
    IN  [raised |-> "none",
         connectors |->
             [i \in 1..n_conn |-> QAdd(QDiv(s, QInt(2)), QMul(QInt(i - 1), s))]]

\* TCC_plots.py lines 50-52: L / s raises ZeroDivisionError for s = 0;
\* np.linspace and np.zeros raise ValueError for a negative number of
\* samples, and return an empty array for 0
plot_elevation_view(L, s, P) ==
    IF s[1] = 0 THEN [raised |-> "ZeroDivisionError", connectors |-> <<>>]
    ELSE LET n_connectors == int(QDiv(L, s))
         IN  IF n_connectors < 0 THEN [raised |-> "ValueError", connectors |-> <<>>]
             ELSE IF n_connectors = 0 THEN [raised |-> "none", connectors |-> <<>>]
             ELSE [raised |-> "none",
                   connectors |-> linspace(QDiv(s, QInt(2)),
                                           QSub(L, QDiv(s, QInt(2))),
                                           n_connectors)]

-----------------------------------------------------------------------------
(* Arguments a caller may pass *)

DimSet == {QInt(i) : i \in 1..MaxDim}
ESet == {QInt(i) : i \in 1..MaxE}
SpacingSet == {QInt(i) : i \in 1..MaxSpacing}
SlipSet == {QInt(i) : i \in 1..MaxSlip}
SpanSet == {QInt(i) : i \in 1..MaxSpan}
LoadSet == {QInt(i) : i \in 1..MaxLoad}
GammaSet == {Q(i, MaxGammaDen) : i \in 1..MaxGammaDen}
OffsetSet == {Q(i, 2) : i \in 1..MaxOffsetNum}

\* arguments of compute_stresses_and_forces: a caller passes the areas and
\* the inertia of two rectangles, strengths, internal forces, offsets, a
\* reduction factor and an effective stiffness (below and above the
\* concrete's own stiffness E_concrete*I_concrete)
FixedModulusSet == {QInt(1), QInt(2)}
FixedDimSet == {QInt(1), QInt(2)}
BendingStrengthSet == {QInt(1), QInt(2)}
TensileStrengthSet == {QInt(3)}
ForceSet == {QInt(1), QInt(2)}
StiffnessSet == {QInt(1), QInt(2)}
FixedOffsetSet == {Q(1, 2), QInt(1)}
FixedGammaSet == {Q(1, 2), QInt(1)}

InertiaSet == {Q(i, 12) : i \in 1..MaxDim}
PointsSet == 2..MaxPoints

\* spacings handed to the elevation views: those of the calculation, and
\* spacings that do not divide the span, zero and negative ones
ViewSpacingSet ==
    SpacingSet \cup {QInt(-3), Q(-1, 2), QInt(0), Q(1, 2), Q(3, 4), QInt(3)}

-----------------------------------------------------------------------------
(* The library as seen by a caller: one call at a time, its arguments and   *)
(* its return value                                                         *)

NoCall == [fn |-> "none", args |-> <<>>, ret |-> <<>>]

Call_compute_section_properties ==
    /\ call.fn = "none"
    /\ \E b_timber \in DimSet, h_timber \in DimSet,
          b_concrete \in DimSet, h_concrete \in DimSet :
          call' = [fn |-> "compute_section_properties",
                   args |-> <<b_timber, h_timber, b_concrete, h_concrete>>,
                   ret |-> compute_section_properties(b_timber, h_timber,
                                                      b_concrete, h_concrete)]
    /\ UNCHANGED <<app_vars, run_vars>>

Call_compute_gamma_concrete ==
    /\ call.fn = "none"
    /\ \E E_concrete \in ESet, A_concrete \in DimSet, s \in SpacingSet,
          k_ser \in SlipSet, L \in SpanSet :
          call' = [fn |-> "compute_gamma_concrete",
                   args |-> <<E_concrete, A_concrete, s, k_ser, L>>,
                   ret |-> compute_gamma_concrete(E_concrete, A_concrete, s, k_ser, L)]
    /\ UNCHANGED <<app_vars, run_vars>>

Call_compute_neutral_axes ==
    /\ call.fn = "none"
    /\ \E E_timber \in ESet, A_timber \in DimSet, E_concrete \in ESet,
          A_concrete \in DimSet, h_timber \in DimSet, h_concrete \in DimSet,
          gamma_concrete \in GammaSet :
          call' = [fn |-> "compute_neutral_axes",
                   args |-> <<E_timber, A_timber, E_concrete, A_concrete,
                              h_timber, h_concrete, gamma_concrete>>,
                   ret |-> compute_neutral_axes(E_timber, A_timber, E_concrete,
                                                A_concrete, h_timber, h_concrete,
                                                gamma_concrete)]
    /\ UNCHANGED <<app_vars, run_vars>>

Call_compute_effective_bending_stiffness ==
    /\ call.fn = "none"
    /\ \E E_timber \in ESet, I_timber \in InertiaSet, A_timber \in DimSet,
          a_timber \in OffsetSet, E_concrete \in ESet, I_concrete \in InertiaSet,
          A_concrete \in DimSet, a_concrete \in OffsetSet,
          gamma_concrete \in GammaSet :
          call' = [fn |-> "compute_effective_bending_stiffness",
                   args |-> <<E_timber, I_timber, A_timber, a_timber, E_concrete,
                              I_concrete, A_concrete, a_concrete, gamma_concrete>>,
                   ret |-> compute_effective_bending_stiffness(
                               E_timber, I_timber, A_timber, a_timber, E_concrete,
                               I_concrete, A_concrete, a_concrete, gamma_concrete)]
    /\ UNCHANGED <<app_vars, run_vars>>

Call_compute_bending_moment_and_shear ==
    /\ call.fn = "none"
    /\ \E P \in LoadSet, L \in SpanSet :
          call' = [fn |-> "compute_bending_moment_and_shear",
                   args |-> <<P, L>>,
                   ret |-> compute_bending_moment_and_shear(P, L)]
    /\ UNCHANGED <<app_vars, run_vars>>

Call_compute_deflection ==
    /\ call.fn = "none"
    /\ \E EI_eff \in ESet, P \in LoadSet, L \in SpanSet, num_points \in PointsSet :
          call' = [fn |-> "compute_deflection",
                   args |-> <<EI_eff, P, L, num_points>>,
                   ret |-> compute_deflection(EI_eff, P, L, num_points)]
    /\ UNCHANGED <<app_vars, run_vars>>

\* the caller takes the returned value; the library keeps nothing
\* the spacing may be 0: the function does not divide by it
Call_compute_stresses_and_forces ==
    /\ call.fn = "none"
    /\ \E E_timber \in FixedModulusSet, E_concrete \in FixedModulusSet,
          b_timber \in FixedDimSet, h_timber \in FixedDimSet,
          b_concrete \in FixedDimSet, h_concrete \in FixedDimSet,
          f_m_timber \in BendingStrengthSet, f_t_timber \in TensileStrengthSet,
          M_mid \in ForceSet, V_max \in ForceSet,
          a_timber \in FixedOffsetSet, a_concrete \in FixedOffsetSet,
          s \in SpacingSet \cup {QInt(0)}, EI_eff \in StiffnessSet,
          gamma_concrete \in FixedGammaSet :
          LET A_timber == QMul(b_timber, h_timber)
              A_concrete == QMul(b_concrete, h_concrete)
              I_concrete == QDiv(QMul(b_concrete, QPow(h_concrete, 3)), QInt(12))
          IN  call' = [fn |-> "compute_stresses_and_forces",
                       args |-> <<E_timber, A_timber, h_timber, f_m_timber,
                                  f_t_timber, E_concrete, A_concrete, h_concrete,
                                  I_concrete, M_mid, V_max, a_timber, a_concrete,
                                  s, EI_eff, gamma_concrete>>,
                       ret |-> compute_stresses_and_forces(E_timber, A_timber, h_timber, f_m_timber, f_t_timber, E_concrete, A_concrete, h_concrete, I_concrete, M_mid, V_max, a_timber, a_concrete, s, EI_eff, gamma_concrete)]
    /\ UNCHANGED <<app_vars, run_vars>>

Call_draw_elevation_view_scaled ==
    /\ call.fn = "none"
    /\ \E L \in SpanSet, s \in ViewSpacingSet :
          call' = [fn |-> "draw_elevation_view_scaled",
                   args |-> <<L, s>>,
                   ret |-> draw_elevation_view_scaled(L, s)]
    /\ UNCHANGED <<app_vars, run_vars>>

Call_plot_elevation_view ==
    /\ call.fn = "none"
    /\ \E L \in SpanSet, s \in ViewSpacingSet, P \in LoadSet :
          call' = [fn |-> "plot_elevation_view",
                   args |-> <<L, s, P>>,
                   ret |-> plot_elevation_view(L, s, P)]
    /\ UNCHANGED <<app_vars, run_vars>>

Return ==
    /\ call.fn # "none"
    /\ call' = NoCall
    /\ UNCHANGED <<app_vars, run_vars>>

\* no report has been generated
NoDocument == [writer |-> "none"]

NotStarted == [script |-> "TCC_app.py"]

Init ==
    /\ call = NoCall
    /\ app = NotStarted
    /\ app_pc = "not started"
    /\ shown = {}
    /\ pdf_data = NoDocument
    /\ runs = <<>>
    /\ started = 0
    /\ document = NoDocument

Next ==
    \/ Call_compute_section_properties
    \/ Call_compute_gamma_concrete
    \/ Call_compute_neutral_axes
    \/ Call_compute_effective_bending_stiffness
    \/ Call_compute_bending_moment_and_shear
    \/ Call_compute_deflection
    \/ Call_compute_stresses_and_forces
    \/ Call_draw_elevation_view_scaled
    \/ Call_plot_elevation_view
    \/ Return

Spec == Init /\ [][Next]_vars

-----------------------------------------------------------------------------
(* src/TCC_report.py and src/TCC_Report.py: the report writers.  A report  *)
(* is modelled by the numbers its lines print.  The model's unit of force   *)
(* is 10^9 N, so that a number printed with 0 decimals in N (or N/m) has 9  *)
(* decimals here, one printed with 2 decimals in kN or kNm has 8, and one   *)
(* printed with 2 decimals in MPa has 5.                                    *)

\* TCC_report.py line 40: a_timber = 0.05
assumed_a_timber == Q(1, 20)

\* lines 25-32 and 26-33: the input parameters section
report_inputs(E_timber_g, E_concrete_g, h_timber, b_timber, h_concrete, b_concrete, s, k_ser, P, L) ==
    [E_timber_g |-> format_f(E_timber_g, 1),
     E_concrete_g |-> format_f(E_concrete_g, 1),
     h_timber |-> format_f(h_timber, 3), b_timber |-> format_f(b_timber, 3),
     h_concrete |-> format_f(h_concrete, 3), b_concrete |-> format_f(b_concrete, 3),
     s |-> format_f(s, 3), k_ser |-> format_f(k_ser, 9),
     P |-> format_f(P, 9), L |-> format_f(L, 3)]

\* lines 64-71 and 47-54: the results section
report_results(sigma_timber, sigma_m_timber, sigma_concrete, sigma_m_concrete, M_concrete, N_concrete, tau_timber_max, F_connector) ==
    [sigma_timber |-> format_f(sigma_timber, 5),
     sigma_m_timber |-> format_f(sigma_m_timber, 5),
     sigma_concrete |-> format_f(sigma_concrete, 5),
     sigma_m_concrete |-> format_f(sigma_m_concrete, 5),
     M_concrete |-> format_f(M_concrete, 8),
     N_concrete |-> format_f(N_concrete, 8),
     tau_timber_max |-> format_f(tau_timber_max, 5),
     F_connector |-> format_f(F_connector, 8)]

\* lines 41-45: the cross-section plan paragraph
report_plan(b_concrete, h_concrete, b_timber, h_timber, a_timber) ==
    [plan_b_concrete |-> format_f(b_concrete, 3),
     plan_h_concrete |-> format_f(h_concrete, 3),
     plan_b_timber |-> format_f(b_timber, 3),
     plan_h_timber |-> format_f(h_timber, 3),
     plan_a_timber |-> format_f(a_timber, 3)]

\* TCC_report.py
generate_pdf_report(E_timber_g, E_concrete_g, h_timber, b_timber, h_concrete, b_concrete, s, k_ser, P, L, sigma_timber, sigma_m_timber, sigma_concrete, sigma_m_concrete, M_concrete, N_concrete, tau_timber_max, F_connector) ==
    LET a_timber == assumed_a_timber
    IN  report_inputs(E_timber_g, E_concrete_g, h_timber, b_timber, h_concrete,
                      b_concrete, s, k_ser, P, L)
        @@ report_plan(b_concrete, h_concrete, b_timber, h_timber, a_timber)
        @@ report_results(sigma_timber, sigma_m_timber, sigma_concrete,
                          sigma_m_concrete, M_concrete, N_concrete, tau_timber_max,
                          F_connector)

\* TCC_Report.py
generate_latex_pdf(E_timber_g, E_concrete_g, h_timber, b_timber, h_concrete, b_concrete, s, k_ser, P, L, sigma_timber, sigma_m_timber, sigma_concrete, sigma_m_concrete, M_concrete, N_concrete, tau_timber_max, F_connector) ==
    report_inputs(E_timber_g, E_concrete_g, h_timber, b_timber, h_concrete,
                  b_concrete, s, k_ser, P, L)
    @@ report_results(sigma_timber, sigma_m_timber, sigma_concrete,
                      sigma_m_concrete, M_concrete, N_concrete, tau_timber_max,
                      F_connector)

-----------------------------------------------------------------------------
(* A full run of the calculation by a caller of the library: the seven     *)
(* functions in their dependency order, each fed the values returned by     *)
(* the earlier ones.  runs records every run made; the interpreter may be   *)
(* started afresh between runs.                                             *)

full_pipeline(in) ==
    LET section == compute_section_properties(in.b_timber, in.h_timber,
                                              in.b_concrete, in.h_concrete)
        A_timber == section[1]
        I_timber == section[2]
        A_concrete == section[3]
        I_concrete == section[4]
        gamma_concrete == compute_gamma_concrete(in.E_concrete, A_concrete, in.s,
                                                 in.k_ser, in.L)
        axes == compute_neutral_axes(in.E_timber, A_timber, in.E_concrete,
                                     A_concrete, in.h_timber, in.h_concrete,
                                     gamma_concrete)
        a_timber == axes[1]
        a_concrete == axes[2]
        EI_eff == compute_effective_bending_stiffness(
                      in.E_timber, I_timber, A_timber, a_timber, in.E_concrete,
                      I_concrete, A_concrete, a_concrete, gamma_concrete)
        loads == compute_bending_moment_and_shear(in.P, in.L)
        M_mid == loads[1]
        V_max == loads[2]
    IN  [A_timber |-> A_timber, I_timber |-> I_timber,
         A_concrete |-> A_concrete, I_concrete |-> I_concrete,
         gamma_concrete |-> gamma_concrete,
         a_timber |-> a_timber, a_concrete |-> a_concrete,
         EI_eff |-> EI_eff, M_mid |-> M_mid, V_max |-> V_max,
         deflection |-> compute_deflection(EI_eff, in.P, in.L, AppPoints),
         stresses |-> compute_stresses_and_forces(
                          in.E_timber, A_timber, in.h_timber, in.f_m_timber,
                          in.f_t_timber, in.E_concrete, A_concrete, in.h_concrete,
                          I_concrete, M_mid, V_max, a_timber, a_concrete, in.s,
                          EI_eff, gamma_concrete)]

\* inputs of a run: one beam section under one load, with spacing and span
\* varying
RunInputSet ==
    {[b_timber |-> QInt(1), h_timber |-> QInt(2),
      b_concrete |-> QInt(2), h_concrete |-> QInt(1),
      E_timber |-> QInt(1), E_concrete |-> QInt(2),
      s |-> s, k_ser |-> QInt(1), L |-> L, P |-> QInt(2),
      f_m_timber |-> QInt(2), f_t_timber |-> QInt(1)] :
        s \in {QInt(1), QInt(2)}, L \in {QInt(1), QInt(2)}}

Run_full_pipeline ==
    /\ Len(runs) < MaxRuns
    /\ \E in \in RunInputSet :
          runs' = Append(runs, [inputs |-> in, outputs |-> full_pipeline(in)])
    /\ UNCHANGED <<call, app_vars, started, document>>

\* a new interpreter imports TCC_EC5_calc afresh
Start_interpreter ==
    /\ started < Len(runs)
    /\ started' = Len(runs)
    /\ UNCHANGED <<call, app_vars, runs, document>>

\* the arguments a caller hands to a report writer for run number n: the
\* inputs (moduli in GPa, the model's unit) and the stresses and forces
report_of(writer, n) ==
    LET in == runs[n].inputs
        r == runs[n].outputs.stresses
    IN  IF writer = "generate_pdf_report"
        THEN generate_pdf_report(in.E_timber, in.E_concrete, in.h_timber,
                 in.b_timber, in.h_concrete, in.b_concrete, in.s, in.k_ser, in.P,
                 in.L, r.sigma_timber, r.sigma_m_timber, r.sigma_concrete,
                 r.sigma_m_concrete, r.M_concrete, r.N_concrete, r.tau_timber_max,
                 r.F_connector)
        ELSE generate_latex_pdf(in.E_timber, in.E_concrete, in.h_timber,
                 in.b_timber, in.h_concrete, in.b_concrete, in.s, in.k_ser, in.P,
                 in.L, r.sigma_timber, r.sigma_m_timber, r.sigma_concrete,
                 r.sigma_m_concrete, r.M_concrete, r.N_concrete, r.tau_timber_max,
                 r.F_connector)

\* the caller has the last run written up; the writer returns the bytes of
\* the report
Write_report ==
    /\ Len(runs) > 0
    /\ \E writer \in {"generate_pdf_report", "generate_latex_pdf"} :
          document' = [writer |-> writer, run |-> Len(runs),
                       text |-> report_of(writer, Len(runs))]
    /\ UNCHANGED <<call, app_vars, runs, started>>

\* the writer raises instead (no fpdf or no LaTeX installation, a file that
\* cannot be written or read back): the caller has no document
Write_report_fails ==
    /\ Len(runs) > 0
    /\ \E writer \in {"generate_pdf_report", "generate_latex_pdf"} :
          document' = [writer |-> writer, run |-> Len(runs), raised |-> "Exception"]
    /\ UNCHANGED <<call, app_vars, runs, started>>

PipelineNext ==
    \/ Run_full_pipeline
    \/ Start_interpreter
    \/ Write_report
    \/ Write_report_fails

PipelineSpec == Init /\ [][PipelineNext]_vars

-----------------------------------------------------------------------------
(* src/TCC_app.py: the dashboard script.  app holds the module-level       *)
(* variables assigned so far, app_pc the position in the script.           *)

\* E_timber = E_timber_g*1000000000: pascals per gigapascal
PaPerGPa == 1000000000

\* n pascals in the model's unit of pressure (10^9 Pa)
Pa(n) == Q(n, PaPerGPa)

app_A(b, h) == QMul(b, h)

app_I(b, h) == QDiv(QMul(b, QPow(h, 3)), QInt(12))

app_M_mid(P, L) == QDiv(QMul(P, L), QInt(4))

app_V_max(P, L) == QDiv(QMul(P, L), QInt(2))

app_gamma_concrete(E_concrete, A_concrete, s, k_ser, L) ==
    QDiv(QInt(1),
         QAdd(QInt(1),
              QDiv(QMul(QMul(QMul(PiSq, E_concrete), A_concrete), s),
                   QMul(k_ser, QPow(L, 2)))))

app_a_timber(E_timber, A_timber, E_concrete, A_concrete, h_timber, h_concrete, gamma_concrete) ==
    QDiv(QMul(QMul(QMul(gamma_concrete, E_concrete), A_concrete),
              QAdd(h_concrete, h_timber)),
         QAdd(QMul(QInt(2), QMul(QMul(gamma_concrete, E_concrete), A_concrete)),
              QMul(E_timber, A_timber)))

app_a_concrete(h_timber, h_concrete, a_timber) ==
    QAdd(QSub(QDiv(h_timber, QInt(2)), a_timber), QDiv(h_concrete, QInt(2)))

app_EI_eff(E_timber, I_timber, A_timber, a_timber, E_concrete, I_concrete, A_concrete, a_concrete, gamma_concrete) ==
    QAdd(QAdd(QAdd(QMul(E_timber, I_timber),
                   QMul(E_concrete, I_concrete)),
              QMul(QMul(E_timber, A_timber), QPow(a_timber, 2))),
         QMul(QMul(QMul(gamma_concrete, E_concrete), A_concrete),
              QPow(a_concrete, 2)))

\* an array divided by the float 0.0: numpy warns and the element is inf or
\* nan, no exception is raised
NotFinite == <<1, 0>>

np_true_divide(a, b) == IF b[1] = 0 THEN NotFinite ELSE QDiv(a, b)

\* line 67: the number of connector markers of the elevation view,
\* int(L/s); L/s raises ZeroDivisionError for s = 0, and np.linspace and
\* np.zeros raise ValueError for a negative number
connectors_exception(L, s) ==
    IF s[1] = 0 THEN "ZeroDivisionError"
    ELSE IF int(QDiv(L, s)) < 0 THEN "ValueError"
    ELSE "none"

\* lines 124-138
app_stresses(g) ==
    [sigma_timber |-> QDiv(QMul(QMul(g.E_timber, g.a_timber), g.M_mid), g.EI_eff),
     sigma_m_timber |->
         QDiv(QMul(QMul(QMul(Q(1, 2), g.E_timber), g.h_timber), g.M_mid), g.EI_eff),
     sigma_concrete |->
         QDiv(QMul(QMul(QMul(g.gamma_concrete, g.E_timber), g.a_timber), g.M_mid),
              g.EI_eff),
     sigma_m_concrete |->
         QDiv(QMul(QMul(QMul(Q(1, 2), g.E_timber), g.h_timber), g.M_mid), g.EI_eff),
     N_concrete |->
         QMul(QDiv(QMul(QMul(QMul(g.gamma_concrete, g.E_timber), g.a_timber),
                        g.M_mid),
                   g.EI_eff),
              g.A_concrete),
     M_concrete |-> QDiv(QMul(QMul(g.E_concrete, g.I_concrete), g.M_mid), g.EI_eff),
     tau_timber_max |->
         QDiv(QMul(QMul(QMul(Q(1, 2), g.E_timber),
                        QMul(g.b_timber, QPow(g.h_timber, 2))),
                   g.V_max),
              QMul(g.b_timber, g.EI_eff)),
     F_connector |->
         QMul(QDiv(QMul(QMul(QMul(QMul(g.gamma_concrete, g.E_concrete),
                                   g.A_concrete), g.a_concrete), g.s),
                   g.EI_eff),
              g.V_max)]

\* slip: the report writer rebinds the module-level a_timber
generate_pdf_rebinds_a_timber(g) ==
    [globals |-> [g EXCEPT !.a_timber = assumed_a_timber],
     pdf_data |-> [writer |-> "generate_pdf"]]

\* lines 214-303: generate_pdf reads the module-level variables g and binds
\* local names only; it returns the bytes of the report
generate_pdf(g) ==
    [globals |-> g,
     pdf_data |->
         [writer |-> "generate_pdf",
          text |-> report_inputs(g.E_timber_g, g.E_concrete_g, g.h_timber,
                                 g.b_timber, g.h_concrete, g.b_concrete, g.s,
                                 g.k_ser, g.P, g.L)
                   @@ report_plan(g.b_concrete, g.h_concrete, g.b_timber,
                                  g.h_timber, g.a_timber)
                   @@ report_results(g.sigma_timber, g.sigma_m_timber,
                                     g.sigma_concrete, g.sigma_m_concrete,
                                     g.M_concrete, g.N_concrete, g.tau_timber_max,
                                     g.F_connector)]]

\* lines 96-99
app_deflection(EI_eff, P, L) ==
    LET x_left == linspace(QInt(0), QDiv(L, QInt(2)), AppPoints)
        x_right == linspace(QDiv(L, QInt(2)), L, AppPoints)
        delta_x_left == [i \in 1..AppPoints |->
                            np_true_divide(
                                QSub(QDiv(QMul(P, QPow(x_left[i], 3)), QInt(12)),
                                     QDiv(QMul(QMul(P, QPow(L, 2)), x_left[i]),
                                          QInt(16))),
                                EI_eff)]
        delta_x_right == Reversed(delta_x_left)
    IN  <<x_left, x_right, delta_x_left, delta_x_right>>

\* values the sidebar widgets hand to the script for the section and the
\* materials; two of each keep the exact arithmetic of the later stages small
AppDimSet == {QInt(1), QInt(2)}
AppModulusSet == {QInt(1), QInt(2)}

\* number_input has no min_value: a width, the spacing and the span may be
\* zero or negative as well (the slider keeps k_ser at 100 or more)
AppWidthSet == AppDimSet \cup {QInt(0)}
AppSlabWidthSet == {QInt(1)}
AppSpacingSet == SpacingSet \cup {QInt(0), QInt(-3)}
AppSpanSet == SpanSet \cup {QInt(0)}
\* positions of the k_ser slider
AppSlipSet == {QInt(1), QInt(2), QInt(3)}

\* the sidebar widgets (lines 21-40)
App_inputs ==
    /\ app_pc = "not started"
    /\ \E E_timber_g \in AppModulusSet, E_concrete_g \in AppModulusSet,
          h_timber \in AppDimSet, b_timber \in AppWidthSet,
          h_concrete \in AppDimSet, b_concrete \in AppSlabWidthSet,
          s \in AppSpacingSet, k_ser \in AppSlipSet, P \in LoadSet, L \in AppSpanSet :
          app' = app @@ [E_timber_g |-> E_timber_g,
                         E_timber |-> QMul(E_timber_g, Pa(PaPerGPa)),
                         E_concrete_g |-> E_concrete_g,
                         E_concrete |-> QMul(E_concrete_g, Pa(PaPerGPa)),
                         h_timber |-> h_timber, b_timber |-> b_timber,
                         h_concrete |-> h_concrete, b_concrete |-> b_concrete,
                         s |-> s, k_ser |-> k_ser, P |-> P, L |-> L]
    /\ app_pc' = "inputs"
    /\ UNCHANGED <<call, shown, pdf_data, run_vars>>

\* an uncaught exception ends the run of the script; streamlit shows it on
\* the page
Raise(exception) ==
    /\ app' = app
    /\ app_pc' = "stopped"
    /\ shown' = shown \cup {exception}

\* the statements assign the values of the record new, unless one of them
\* divides by zero
Assign(new, next_pc) ==
    IF \E name \in DOMAIN new : IsErr(new[name])
    THEN Raise("ZeroDivisionError")
    ELSE /\ app' = app @@ new
         /\ app_pc' = next_pc
         /\ shown' = shown

\* lines 44-49
App_section_properties ==
    /\ app_pc = "inputs"
    /\ app' = app @@ [A_timber |-> app_A(app.b_timber, app.h_timber),
                      A_concrete |-> app_A(app.b_concrete, app.h_concrete),
                      I_timber |-> app_I(app.b_timber, app.h_timber),
                      I_concrete |-> app_I(app.b_concrete, app.h_concrete)]
    /\ app_pc' = "section"
    /\ UNCHANGED <<call, shown, pdf_data, run_vars>>

\* lines 52-53
App_load_effects ==
    /\ app_pc = "section"
    /\ app' = app @@ [M_mid |-> app_M_mid(app.P, app.L),
                      V_max |-> app_V_max(app.P, app.L)]
    /\ app_pc' = "loads"
    /\ UNCHANGED <<call, shown, pdf_data, run_vars>>

\* line 56
App_gamma ==
    /\ app_pc = "loads"
    /\ Assign([gamma_concrete |->
                   app_gamma_concrete(app.E_concrete, app.A_concrete,
                                      app.s, app.k_ser, app.L)],
              "gamma")
    /\ UNCHANGED <<call, pdf_data, run_vars>>

\* lines 59-60
App_neutral_axes ==
    /\ app_pc = "gamma"
    /\ LET a_timber == app_a_timber(app.E_timber, app.A_timber, app.E_concrete,
                                    app.A_concrete, app.h_timber, app.h_concrete,
                                    app.gamma_concrete)
       IN  Assign([a_timber |-> a_timber,
                   a_concrete |-> app_a_concrete(app.h_timber, app.h_concrete,
                                                 a_timber)],
                  "axes")
    /\ UNCHANGED <<call, pdf_data, run_vars>>

\* lines 62-73: the elevation view
App_elevation_view ==
    /\ app_pc = "axes"
    /\ IF connectors_exception(app.L, app.s) # "none"
       THEN Raise(connectors_exception(app.L, app.s))
       ELSE /\ app' = app
            /\ app_pc' = "elevation"
            /\ shown' = shown \cup {"Elevation View of TCC Element"}
    /\ UNCHANGED <<call, pdf_data, run_vars>>

\* lines 76-87: the cross-section plot with the neutral axis
App_cross_section ==
    /\ app_pc = "elevation"
    /\ app' = app
    /\ app_pc' = "cross-section"
    /\ shown' = shown \cup {"Cross-section of TCC Element"}
    /\ UNCHANGED <<call, pdf_data, run_vars>>

\* lines 90-93
App_EI_eff ==
    /\ app_pc = "cross-section"
    /\ app' = app @@ [EI_eff |->
                          app_EI_eff(app.E_timber, app.I_timber, app.A_timber,
                                     app.a_timber, app.E_concrete, app.I_concrete,
                                     app.A_concrete, app.a_concrete,
                                     app.gamma_concrete)]
    /\ app_pc' = "stiffness"
    /\ UNCHANGED <<call, shown, pdf_data, run_vars>>

\* lines 96-110: the deflection curve and its plot
App_deflection ==
    /\ app_pc = "stiffness"
    /\ LET d == app_deflection(app.EI_eff, app.P, app.L)
       IN  app' = app @@ [x_left |-> d[1], x_right |-> d[2],
                          delta_x_left |-> d[3], delta_x_right |-> d[4]]
    /\ app_pc' = "deflection"
    /\ shown' = shown \cup {"Deflection of TCC Element using Gamma Method"}
    /\ UNCHANGED <<call, pdf_data, run_vars>>

\* the values under "Calculated Section Properties"
PropertiesShown ==
    {"A_timber", "I_timber", "A_concrete", "I_concrete", "a_timber", "a_concrete",
     "EI_eff", "gamma_concrete"}

\* lines 113-121
App_show_properties ==
    /\ app_pc = "deflection"
    /\ app' = app
    /\ app_pc' = "properties shown"
    /\ shown' = shown \cup PropertiesShown
    /\ UNCHANGED <<call, pdf_data, run_vars>>

\* lines 124-138
App_stresses ==
    /\ app_pc = "properties shown"
    /\ Assign(app_stresses(app), "stresses")
    /\ UNCHANGED <<call, pdf_data, run_vars>>

\* the values under "TCC Element Stress Verification Results"
ResultsShown ==
    {"sigma_timber", "sigma_m_timber", "sigma_concrete", "sigma_m_concrete",
     "M_concrete", "N_concrete", "tau_timber_max", "F_connector"}

\* lines 140-156
App_show_results ==
    /\ app_pc = "stresses"
    /\ app' = app
    /\ app_pc' = "results shown"
    /\ shown' = shown \cup ResultsShown
    /\ UNCHANGED <<call, pdf_data, run_vars>>

\* lines 306-314: the button is the last statement of the script.  Pressing
\* it runs the script again with the same widget values, which assigns and
\* shows the same values again, and then calls generate_pdf and offers its
\* bytes for download.
App_generate_pdf ==
    /\ app_pc = "results shown"
    /\ app' = generate_pdf(app).globals
    /\ pdf_data' = generate_pdf(app).pdf_data
    /\ app_pc' = "report offered"
    /\ shown' = shown \cup {"Download PDF Report"}
    /\ UNCHANGED <<call, run_vars>>

\* generate_pdf raises (a figure that cannot be rendered, a temporary file
\* that cannot be written): no bytes are returned
App_generate_pdf_raises ==
    /\ app_pc = "results shown"
    /\ app' = generate_pdf(app).globals
    /\ app_pc' = "report failed"
    /\ shown' = shown \cup {"Exception"}
    /\ UNCHANGED <<call, pdf_data, run_vars>>

\* streamlit runs the script again from the top when a widget changes
App_rerun ==
    /\ app_pc \in {"results shown", "report offered", "report failed", "stopped"}
    /\ app' = NotStarted
    /\ app_pc' = "not started"
    /\ shown' = {}
    /\ pdf_data' = NoDocument
    /\ UNCHANGED <<call, run_vars>>

AppNext ==
    \/ App_inputs
    \/ App_section_properties
    \/ App_load_effects
    \/ App_gamma
    \/ App_neutral_axes
    \/ App_elevation_view
    \/ App_cross_section
    \/ App_EI_eff
    \/ App_deflection
    \/ App_show_properties
    \/ App_stresses
    \/ App_show_results
    \/ App_generate_pdf
    \/ App_generate_pdf_raises
    \/ App_rerun

AppSpec == Init /\ [][AppNext]_vars

-----------------------------------------------------------------------------
(* Properties of the library functions, checked under Spec *)

\* C1: compute_section_properties returns (A_timber, I_timber, A_concrete,
\* I_concrete) with A = b*h and 12*I = A*h^2 for each material, and the
\* values of one material do not change with the other material's width
\* and height.
C1_SectionProperties ==
    call.fn = "compute_section_properties" =>
        LET b_timber == call.args[1]
            h_timber == call.args[2]
            b_concrete == call.args[3]
            h_concrete == call.args[4]
            A_timber == call.ret[1]
            I_timber == call.ret[2]
            A_concrete == call.ret[3]
            I_concrete == call.ret[4]
        IN  /\ Len(call.ret) = 4
            /\ QDiv(A_timber, h_timber) = b_timber
            /\ QDiv(A_concrete, h_concrete) = b_concrete
            /\ QMul(QInt(12), I_timber) = QMul(A_timber, QMul(h_timber, h_timber))
            /\ QMul(QInt(12), I_concrete) = QMul(A_concrete, QMul(h_concrete, h_concrete))
            /\ \A b \in DimSet, h \in DimSet :
                  LET other_concrete == compute_section_properties(b_timber, h_timber, b, h)
                      other_timber == compute_section_properties(b, h, b_concrete, h_concrete)
                  IN  /\ other_concrete[1] = A_timber
                      /\ other_concrete[2] = I_timber
                      /\ other_timber[3] = A_concrete
                      /\ other_timber[4] = I_concrete

\* a 1 x 2 timber section under a 2 x 1 slab: I_timber = 2/3, I_concrete = 1/6
C1_Witness ==
    /\ call.fn = "compute_section_properties"
    /\ call.args = <<QInt(1), QInt(2), QInt(2), QInt(1)>>
    /\ call.ret = <<QInt(2), Q(2, 3), QInt(2), Q(1, 6)>>

\* C2: for positive arguments compute_gamma_concrete returns
\* gamma = 1/(1 + pi^2*E_concrete*A_concrete*s/(k_ser*L^2)), that is
\* gamma*(k_ser*L^2 + pi^2*E_concrete*A_concrete*s) = k_ser*L^2, and
\* 0 < gamma <= 1.
C2_GammaInUnitInterval ==
    call.fn = "compute_gamma_concrete" =>
        LET E_concrete == call.args[1]
            A_concrete == call.args[2]
            s == call.args[3]
            k_ser == call.args[4]
            L == call.args[5]
            gamma == call.ret
            kL2 == QMul(k_ser, QMul(L, L))
        IN  /\ ~IsErr(gamma)
            /\ QMul(gamma, QAdd(kL2, QMul(PiSq, QMul(E_concrete, QMul(A_concrete, s)))))
                   = kL2
            /\ QPos(gamma)
            /\ QLe(gamma, QInt(1))

\* all arguments 1: gamma = 1/(1 + 79/8) = 8/87
C2_Witness ==
    /\ call.fn = "compute_gamma_concrete"
    /\ call.args = <<QInt(1), QInt(1), QInt(1), QInt(1), QInt(1)>>
    /\ call.ret = Q(8, 87)

\* C3: with E_concrete, A_concrete, s and L fixed, gamma is strictly
\* increasing in k_ser: for k_ser < k2, gamma(k_ser) < gamma(k2) < 1, and
\* k*(1/gamma(k) - 1) is the same for both, so that 1/gamma - 1 is
\* inversely proportional to k_ser (gamma tends to 1 as k_ser grows and to
\* 0 from above as k_ser tends to 0).
C3_GammaIncreasingInSlip ==
    call.fn = "compute_gamma_concrete" =>
        LET E_concrete == call.args[1]
            A_concrete == call.args[2]
            s == call.args[3]
            k_ser == call.args[4]
            L == call.args[5]
            gamma == call.ret
        IN  \A k2 \in SlipSet :
                QLt(k_ser, k2) =>
                    LET gamma2 == compute_gamma_concrete(E_concrete, A_concrete, s, k2, L)
                    IN  /\ QPos(gamma)
                        /\ QLt(gamma, gamma2)
                        /\ QLt(gamma2, QInt(1))
                        /\ QMul(k_ser, QSub(QDiv(QInt(1), gamma), QInt(1)))
                               = QMul(k2, QSub(QDiv(QInt(1), gamma2), QInt(1)))

\* k_ser = 1 returned 8/87, and k_ser = 2 gives the larger 16/95
C3_Witness ==
    /\ call.fn = "compute_gamma_concrete"
    /\ call.args = <<QInt(1), QInt(1), QInt(1), QInt(1), QInt(1)>>
    /\ QInt(2) \in SlipSet
    /\ compute_gamma_concrete(QInt(1), QInt(1), QInt(1), QInt(2), QInt(1)) = Q(16, 95)
    /\ QLt(call.ret, Q(16, 95))

\* C4: compute_neutral_axes doubles the whole denominator sum:
\* a_timber * 2*(gamma*E_concrete*A_concrete + E_timber*A_timber)
\*     = gamma*E_concrete*A_concrete*(h_concrete + h_timber).
C4_NeutralAxisDenominator ==
    call.fn = "compute_neutral_axes" =>
        LET E_timber == call.args[1]
            A_timber == call.args[2]
            E_concrete == call.args[3]
            A_concrete == call.args[4]
            h_timber == call.args[5]
            h_concrete == call.args[6]
            gamma == call.args[7]
            a_timber == call.ret[1]
            gEA == QMul(gamma, QMul(E_concrete, A_concrete))
        IN  /\ ~IsErr(a_timber)
            /\ QMul(a_timber, QAdd(QMul(QInt(2), gEA),
                                   QMul(QInt(2), QMul(E_timber, A_timber))))
                   = QMul(gEA, QAdd(h_concrete, h_timber))

\* equal unit layers, rigid connection: a_timber = 2/(2*(1 + 1)) = 1/2
C4_Witness ==
    /\ call.fn = "compute_neutral_axes"
    /\ call.args = <<QInt(1), QInt(1), QInt(1), QInt(1), QInt(1), QInt(1), QInt(1)>>
    /\ call.ret[1] = Q(1, 2)

\* C5: the offsets returned by compute_neutral_axes add up to the distance
\* between the centroids, a_timber + a_concrete = h_timber/2 + h_concrete/2,
\* and the neutral axis lies between the centroids:
\* 0 < a_timber < (h_timber + h_concrete)/2 and a_concrete > 0.
C5_NeutralAxisBetweenCentroids ==
    call.fn = "compute_neutral_axes" =>
        LET h_timber == call.args[5]
            h_concrete == call.args[6]
            a_timber == call.ret[1]
            a_concrete == call.ret[2]
            centroids == QDiv(QAdd(h_timber, h_concrete), QInt(2))
        IN  /\ Len(call.ret) = 2
            /\ QAdd(a_timber, a_concrete) = centroids
            /\ QPos(a_timber)
            /\ QLt(a_timber, centroids)
            /\ QPos(a_concrete)

\* a partially connected slab (gamma = 1/3) of another height than the timber
C5_Witness ==
    /\ call.fn = "compute_neutral_axes"
    /\ call.args[5] # call.args[6]
    /\ call.args[7] = Q(1, 3)
    /\ call.ret[1] # call.ret[2]

\* C6: compute_effective_bending_stiffness returns
\* E_timber*I_timber + E_concrete*I_concrete + E_timber*A_timber*a_timber^2
\* + gamma*E_concrete*A_concrete*a_concrete^2, which is positive and
\* strictly greater than E_timber*I_timber + E_concrete*I_concrete.
C6_EffectiveStiffness ==
    call.fn = "compute_effective_bending_stiffness" =>
        LET E_timber == call.args[1]
            I_timber == call.args[2]
            A_timber == call.args[3]
            a_timber == call.args[4]
            E_concrete == call.args[5]
            I_concrete == call.args[6]
            A_concrete == call.args[7]
            a_concrete == call.args[8]
            gamma == call.args[9]
            EI_eff == call.ret
            bare == QAdd(QMul(E_timber, I_timber), QMul(E_concrete, I_concrete))
        IN  /\ EI_eff = QAdd(QAdd(bare,
                                  QMul(E_timber, QMul(A_timber, QMul(a_timber, a_timber)))),
                             QMul(gamma, QMul(E_concrete,
                                  QMul(A_concrete, QMul(a_concrete, a_concrete)))))
            /\ QPos(EI_eff)
            /\ QLt(bare, EI_eff)

\* a partially connected section: gamma < 1 and both offsets 1/2
C6_Witness ==
    /\ call.fn = "compute_effective_bending_stiffness"
    /\ call.args[9] = Q(1, 3)
    /\ call.args[4] = Q(1, 2)
    /\ call.args[8] = Q(1, 2)
    /\ QLt(QInt(0), call.ret)

\* C7: compute_bending_moment_and_shear returns M_mid = P*L/4 and
\* V_max = P/2, and V_max is the same for every span L.
C7_MomentAndShear ==
    call.fn = "compute_bending_moment_and_shear" =>
        LET P == call.args[1]
            L == call.args[2]
            M_mid == call.ret[1]
            V_max == call.ret[2]
        IN  /\ Len(call.ret) = 2
            /\ QMul(QInt(4), M_mid) = QMul(P, L)
            /\ QMul(QInt(2), V_max) = P
            /\ \A L2 \in SpanSet : compute_bending_moment_and_shear(P, L2)[2] = V_max

\* P = 2 on a span of 2: M_mid = 1, V_max = 1
C7_Witness ==
    /\ call.fn = "compute_bending_moment_and_shear"
    /\ call.args = <<QInt(2), QInt(2)>>
    /\ call.ret = <<QInt(1), QInt(1)>>

\* C10: the curve returned by compute_deflection is symmetric about
\* mid-span: each half has num_points samples, x_right[i] = L - x_left[n+1-i]
\* and delta_right[i] = delta_left[n+1-i] (indices from 1), so every left
\* sample x has a right sample at L - x with the same deflection.
C10_DeflectionSymmetric ==
    call.fn = "compute_deflection" =>
        LET L == call.args[3]
            n == call.args[4]
            x_left == call.ret[1]
            delta_left == call.ret[2]
            x_right == call.ret[3]
            delta_right == call.ret[4]
        IN  /\ Len(x_left) = n /\ Len(delta_left) = n
            /\ Len(x_right) = n /\ Len(delta_right) = n
            /\ \A i \in 1..n :
                  /\ x_right[i] = QSub(L, x_left[n + 1 - i])
                  /\ delta_right[i] = delta_left[n + 1 - i]
            /\ \A j \in 1..n : \E i \in 1..n :
                  /\ x_right[i] = QSub(L, x_left[j])
                  /\ delta_right[i] = delta_left[j]

\* four samples per half on a span of 2: the support sample is 0, the
\* mid-span sample is not, and the right half starts at mid-span
C10_Witness ==
    /\ call.fn = "compute_deflection"
    /\ call.args[3] = QInt(2)
    /\ call.args[4] = 4
    /\ call.ret[1][2] = Q(1, 3)
    /\ call.ret[3][3] = Q(5, 3)
    /\ call.ret[2][1] = QInt(0)
    /\ call.ret[2][4] # QInt(0)
    /\ call.ret[4][1] = call.ret[2][4]

\* C11: for P, L, EI_eff > 0 every left-half sample of compute_deflection is
\* (P*x^3/12 - P*L^2*x/16)/EI_eff, that is
\* 48*EI_eff*delta = P*x*(4*x^2 - 3*L^2); it is 0 at the support x = 0 and
\* strictly negative for 0 < x <= L/2, and no sample of either half is
\* positive.
C11_DeflectionDownward ==
    call.fn = "compute_deflection" =>
        LET EI_eff == call.args[1]
            P == call.args[2]
            L == call.args[3]
            n == call.args[4]
            x_left == call.ret[1]
            delta_left == call.ret[2]
            delta_right == call.ret[4]
        IN  /\ x_left[1] = QInt(0)
            /\ delta_left[1] = QInt(0)
            /\ \A i \in 1..n :
                  /\ QMul(QMul(QInt(48), EI_eff), delta_left[i])
                         = QMul(QMul(P, x_left[i]),
                                QSub(QMul(QInt(4), QMul(x_left[i], x_left[i])),
                                     QMul(QInt(3), QMul(L, L))))
                  /\ QLe(x_left[i], QDiv(L, QInt(2)))
                  /\ i > 1 => QPos(x_left[i]) /\ QLt(delta_left[i], QInt(0))
                  /\ QLe(delta_left[i], QInt(0))
                  /\ QLe(delta_right[i], QInt(0))

\* P = 2, L = 2, EI_eff = 1, three samples: x = 0, 1/2, 1 give
\* delta = 0, -11/48, -1/3
C11_Witness ==
    /\ call.fn = "compute_deflection"
    /\ call.args = <<QInt(1), QInt(2), QInt(2), 3>>
    /\ call.ret[1] = <<QInt(0), Q(1, 2), QInt(1)>>
    /\ call.ret[2] = <<QInt(0), Q(-11, 48), Q(-1, 3)>>

\* C22: compute_deflection returns exactly num_points samples in each of
\* its four sequences; x_left runs from 0 to L/2 and x_right from L/2 to L,
\* both strictly increasing; the mid-span point is the last left sample and
\* the first right sample, with the same deflection; the samples at the two
\* supports x = 0 and x = L have deflection 0.
C22_DeflectionSamples ==
    call.fn = "compute_deflection" =>
        LET L == call.args[3]
            n == call.args[4]
            x_left == call.ret[1]
            delta_left == call.ret[2]
            x_right == call.ret[3]
            delta_right == call.ret[4]
            half == QDiv(L, QInt(2))
        IN  /\ Len(x_left) = n /\ Len(delta_left) = n
            /\ Len(x_right) = n /\ Len(delta_right) = n
            /\ x_left[1] = QInt(0) /\ x_left[n] = half
            /\ x_right[1] = half /\ x_right[n] = L
            /\ \A i \in 1..(n - 1) :
                  /\ QLt(x_left[i], x_left[i + 1])
                  /\ QLt(x_right[i], x_right[i + 1])
            /\ delta_left[n] = delta_right[1]
            /\ delta_left[1] = QInt(0)
            /\ delta_right[n] = QInt(0)

\* four samples per half on a span of 2: x_left = 0, 1/3, 2/3, 1 and
\* x_right = 1, 4/3, 5/3, 2; the mid-span deflection -2/3 closes the left
\* half and opens the right half
C22_Witness ==
    /\ call.fn = "compute_deflection"
    /\ call.args = <<QInt(1), QInt(2), QInt(2), 4>>
    /\ call.ret[1] = <<QInt(0), Q(1, 3), Q(2, 3), QInt(1)>>
    /\ call.ret[3] = <<QInt(1), Q(4, 3), Q(5, 3), QInt(2)>>
    /\ call.ret[2][4] = Q(-1, 3)
    /\ call.ret[4][1] = Q(-1, 3)
    /\ call.ret[4][4] = QInt(0)

\* C23: for P, L, EI_eff > 0 the sampled deflection does not decrease in
\* magnitude from the support to mid-span, delta_left[i+1] <= delta_left[i]
\* for every i, so no sample of either half lies below the mid-span sample,
\* and the mid-span sample is exactly -P*L^3/(48*EI_eff).
C23_LargestDeflectionAtMidSpan ==
    (/\ call.fn = "compute_deflection"
     /\ QPos(call.args[1]) /\ QPos(call.args[2]) /\ QPos(call.args[3])) =>
        LET EI_eff == call.args[1]
            P == call.args[2]
            L == call.args[3]
            n == call.args[4]
            delta_left == call.ret[2]
            delta_right == call.ret[4]
            mid_span == QDiv(QNeg(QMul(P, QPow(L, 3))), QMul(QInt(48), EI_eff))
        IN  /\ \A i \in 1..(n - 1) : QLe(delta_left[i + 1], delta_left[i])
            /\ \A i \in 1..n :
                  /\ QLe(delta_left[n], delta_left[i])
                  /\ QLe(delta_left[n], delta_right[i])
            /\ delta_left[n] = mid_span
            /\ delta_right[1] = mid_span

\* EI_eff = 2, P = 1, L = 2, four samples per half: the deflections fall
\* from 0 at the support to -P*L^3/(48*EI_eff) = -1/12 at mid-span
C23_Witness ==
    /\ call.fn = "compute_deflection"
    /\ call.args = <<QInt(2), QInt(1), QInt(2), 4>>
    /\ call.ret[2][1] = QInt(0)
    /\ QLt(call.ret[2][2], call.ret[2][1])
    /\ QLt(call.ret[2][3], call.ret[2][2])
    /\ QLt(call.ret[2][4], call.ret[2][3])
    /\ call.ret[2][4] = Q(-1, 12)

\* C15: compute_stresses_and_forces returns
\* sigma_m_timber = 0.5*E_timber*h_timber*M_mid/EI_eff,
\* sigma_timber = E_timber*a_timber*M_mid/EI_eff and
\* utilisation_timber = sigma_m_timber/f_m_timber + sigma_timber/f_t_timber
\* with no further factor; for positive inputs the three are positive, and
\* the utilisation is linear in M_mid: doubling M_mid doubles it.
C15_TimberStressesAndUtilisation ==
    call.fn = "compute_stresses_and_forces" =>
        LET E_timber == call.args[1]
            h_timber == call.args[3]
            f_m_timber == call.args[4]
            f_t_timber == call.args[5]
            M_mid == call.args[10]
            a_timber == call.args[12]
            EI_eff == call.args[15]
            r == call.ret
            doubled == stresses_of([call.args EXCEPT ![10] = QMul(QInt(2), M_mid)])
        IN  /\ QMul(QMul(QInt(2), EI_eff), r.sigma_m_timber)
                  = QMul(QMul(E_timber, h_timber), M_mid)
            /\ QMul(EI_eff, r.sigma_timber) = QMul(QMul(E_timber, a_timber), M_mid)
            /\ QMul(QMul(f_m_timber, f_t_timber), r.utilisation_timber)
                  = QAdd(QMul(f_t_timber, r.sigma_m_timber),
                         QMul(f_m_timber, r.sigma_timber))
            /\ QPos(r.sigma_m_timber)
            /\ QPos(r.sigma_timber)
            /\ QPos(r.utilisation_timber)
            /\ doubled.utilisation_timber = QMul(QInt(2), r.utilisation_timber)

\* E_timber = 2, h_timber = 1, a_timber = 1/2, M_mid = 2, EI_eff = 1,
\* f_m_timber = 2, f_t_timber = 3: both stresses are 2 and the utilisation
\* is 2/2 + 2/3 = 5/3
C15_Witness ==
    /\ call.fn = "compute_stresses_and_forces"
    /\ call.args[1] = QInt(2)
    /\ call.args[3] = QInt(1)
    /\ call.args[4] = QInt(2)
    /\ call.args[5] = QInt(3)
    /\ call.args[10] = QInt(2)
    /\ call.args[12] = Q(1, 2)
    /\ call.args[15] = QInt(1)
    /\ call.ret.sigma_m_timber = QInt(2)
    /\ call.ret.sigma_timber = QInt(2)
    /\ call.ret.utilisation_timber = Q(5, 3)

\* C16: compute_stresses_and_forces returns
\* sigma_concrete = gamma*E_concrete*a_concrete*M_mid/EI_eff,
\* sigma_m_concrete = 0.5*E_concrete*h_concrete*M_mid/EI_eff,
\* N_concrete = sigma_concrete*A_concrete and
\* M_concrete = E_concrete*I_concrete*M_mid/EI_eff, and
\* M_concrete < M_mid whenever EI_eff > E_concrete*I_concrete.
C16_ConcreteStressesAndForces ==
    call.fn = "compute_stresses_and_forces" =>
        LET E_concrete == call.args[6]
            A_concrete == call.args[7]
            h_concrete == call.args[8]
            I_concrete == call.args[9]
            M_mid == call.args[10]
            a_concrete == call.args[13]
            EI_eff == call.args[15]
            gamma_concrete == call.args[16]
            r == call.ret
        IN  /\ QMul(EI_eff, r.sigma_concrete)
                  = QMul(QMul(QMul(gamma_concrete, E_concrete), a_concrete), M_mid)
            /\ QMul(QMul(QInt(2), EI_eff), r.sigma_m_concrete)
                  = QMul(QMul(E_concrete, h_concrete), M_mid)
            /\ r.N_concrete = QMul(r.sigma_concrete, A_concrete)
            /\ QMul(EI_eff, r.M_concrete) = QMul(QMul(E_concrete, I_concrete), M_mid)
            /\ QLt(QMul(E_concrete, I_concrete), EI_eff) => QLt(r.M_concrete, M_mid)

\* E_concrete = 2 and E_timber = 1, a 1 x 1 slab (A = 1, I = 1/12), gamma = 1/2,
\* a_concrete = 1, M_mid = 2, EI_eff = 1 > 2/12: sigma_concrete = 2,
\* sigma_m_concrete = 2, N_concrete = 2, M_concrete = 1/3 < 2
C16_Witness ==
    /\ call.fn = "compute_stresses_and_forces"
    /\ call.args[1] = QInt(1)
    /\ call.args[6] = QInt(2)
    /\ call.args[7] = QInt(1)
    /\ call.args[8] = QInt(1)
    /\ call.args[9] = Q(1, 12)
    /\ call.args[10] = QInt(2)
    /\ call.args[13] = QInt(1)
    /\ call.args[15] = QInt(1)
    /\ call.args[16] = Q(1, 2)
    /\ call.ret.sigma_concrete = QInt(2)
    /\ call.ret.sigma_m_concrete = QInt(2)
    /\ call.ret.N_concrete = QInt(2)
    /\ call.ret.M_concrete = Q(1, 3)
    /\ QLt(call.ret.M_concrete, call.args[10])

\* C17: h_EC_tau = a_timber + 0.5*h_timber (the neutral axis measured from
\* the timber base: half the timber height up to its centroid, then
\* a_timber) and tau_timber_max = 0.5*E_timber*h_EC_tau^2*V_max/EI_eff; the
\* shear stress does not depend on the timber width: another timber area for
\* the same height gives the same value.
C17_TimberShearStress ==
    call.fn = "compute_stresses_and_forces" =>
        LET E_timber == call.args[1]
            h_timber == call.args[3]
            V_max == call.args[11]
            a_timber == call.args[12]
            EI_eff == call.args[15]
            r == call.ret
        IN  /\ r.h_EC_tau = QAdd(a_timber, QDiv(h_timber, QInt(2)))
            /\ QMul(QMul(QInt(2), EI_eff), r.tau_timber_max)
                  = QMul(QMul(E_timber, QMul(r.h_EC_tau, r.h_EC_tau)), V_max)
            /\ \A b_timber \in FixedDimSet :
                  stresses_of([call.args EXCEPT ![2] = QMul(b_timber, h_timber)])
                      .tau_timber_max = r.tau_timber_max

\* E_timber = 2, a 2 x 1 timber (A = 2), a_timber = 1/2, V_max = 2,
\* EI_eff = 1: h_EC_tau = 1 and tau_timber_max = 0.5*2*1*2 = 2
C17_Witness ==
    /\ call.fn = "compute_stresses_and_forces"
    /\ call.args[1] = QInt(2)
    /\ call.args[2] = QInt(2)
    /\ call.args[3] = QInt(1)
    /\ call.args[11] = QInt(2)
    /\ call.args[12] = Q(1, 2)
    /\ call.args[15] = QInt(1)
    /\ call.ret.h_EC_tau = QInt(1)
    /\ call.ret.tau_timber_max = QInt(2)

\* C18: F_connector = gamma*E_concrete*A_concrete*a_concrete*s*V_max/EI_eff.
\* The spacing is never a divisor: with s = 0 and EI_eff > 0 no value of the
\* results is a division error and F_connector = 0, compute_gamma_concrete
\* with that spacing returns a value too (1 for s = 0), and F_connector is
\* proportional to s: F(s)*s2 = F(s2)*s.
C18_ConnectorForceProportionalToSpacing ==
    call.fn = "compute_stresses_and_forces" =>
        LET E_concrete == call.args[6]
            A_concrete == call.args[7]
            V_max == call.args[11]
            a_concrete == call.args[13]
            s == call.args[14]
            EI_eff == call.args[15]
            gamma_concrete == call.args[16]
            r == call.ret
        IN  /\ QMul(EI_eff, r.F_connector)
                  = QMul(QMul(QMul(QMul(QMul(gamma_concrete, E_concrete), A_concrete),
                                   a_concrete), s), V_max)
            /\ \A key \in DOMAIN r : ~IsErr(r[key])
            /\ s = QInt(0) => r.F_connector = QInt(0)
            /\ \A k_ser \in SlipSet, L \in SpanSet :
                  LET gamma == compute_gamma_concrete(E_concrete, A_concrete, s, k_ser, L)
                  IN  /\ ~IsErr(gamma)
                      /\ s = QInt(0) => gamma = QInt(1)
            /\ \A s2 \in SpacingSet \cup {QInt(0)} :
                  QMul(r.F_connector, s2)
                      = QMul(stresses_of([call.args EXCEPT ![14] = s2]).F_connector, s)

\* s = 0 with gamma = 1, E_concrete = 2, A_concrete = 2, a_concrete = 1,
\* V_max = 2, EI_eff = 1: the call returns, with F_connector = 0 (the same
\* call with s = 1 returns F_connector = 8)
C18_Witness ==
    /\ call.fn = "compute_stresses_and_forces"
    /\ call.args[6] = QInt(2)
    /\ call.args[7] = QInt(2)
    /\ call.args[11] = QInt(2)
    /\ call.args[13] = QInt(1)
    /\ call.args[14] = QInt(0)
    /\ call.args[15] = QInt(1)
    /\ call.args[16] = QInt(1)
    /\ call.ret.F_connector = QInt(0)
    /\ stresses_of([call.args EXCEPT ![14] = QInt(1)]).F_connector = QInt(8)

\* C24: for L > 0, draw_elevation_view_scaled returns without a division
\* error; for s > 0 it draws floor(L/s) connectors, the one of index i at
\* x = s/2 + i*s, each with 0 < x < L and s after the one before it; for
\* s <= 0 it draws none.  plot_elevation_view, for the same L and a spacing
\* s > 0, places the same number of connectors at the same positions.
C24_ConnectorsEverySpacing ==
    /\ (call.fn = "draw_elevation_view_scaled" /\ QPos(call.args[1])) =>
           LET L == call.args[1]
               s == call.args[2]
               x == call.ret.connectors
           IN  /\ call.ret.raised = "none"
               /\ IF QPos(s)
                  THEN /\ Len(x) = floor(QDiv(L, s))
                       /\ \A i \in 1..Len(x) :
                             /\ x[i] = QAdd(QDiv(s, QInt(2)), QMul(QInt(i - 1), s))
                             /\ QPos(x[i]) /\ QLt(x[i], L)
                             /\ i > 1 => QSub(x[i], x[i - 1]) = s
                  ELSE Len(x) = 0
    /\ (call.fn = "plot_elevation_view" /\ QPos(call.args[1]) /\ QPos(call.args[2])) =>
           call.ret = draw_elevation_view_scaled(call.args[1], call.args[2])

-----------------------------------------------------------------------------
(* Properties claimed of the dashboard script, checked under AppSpec *)

\* C8: the maximum shear the dashboard script uses is V_max = P/2.
C8_AppShearIsHalfLoad ==
    "V_max" \in DOMAIN app => app.V_max = QDiv(app.P, QInt(2))

\* C9: the dashboard script computes the a_timber and a_concrete that
\* compute_neutral_axes returns for the same inputs (the whole denominator
\* sum doubled).
C9_AppNeutralAxesAgree ==
    "a_timber" \in DOMAIN app =>
        LET lib == compute_neutral_axes(app.E_timber, app.A_timber, app.E_concrete,
                                        app.A_concrete, app.h_timber, app.h_concrete,
                                        app.gamma_concrete)
        IN  /\ app.a_timber = lib[1]
            /\ app.a_concrete = lib[2]

\* C21: the stress values the dashboard script computes inline are the
\* values compute_stresses_and_forces returns for the script's own upstream
\* quantities (moduli, areas, heights, a_timber, a_concrete, gamma, EI_eff,
\* M_mid, V_max, s): all eight of sigma_timber, sigma_m_timber,
\* sigma_concrete, sigma_m_concrete, N_concrete, M_concrete, tau_timber_max
\* and F_connector agree.  (The script has no strengths; the eight values do
\* not depend on them.)
C21_AppStressesAgree ==
    "sigma_timber" \in DOMAIN app =>
        LET lib == compute_stresses_and_forces(
                       app.E_timber, app.A_timber, app.h_timber, QInt(1), QInt(1),
                       app.E_concrete, app.A_concrete, app.h_concrete,
                       app.I_concrete, app.M_mid, app.V_max, app.a_timber,
                       app.a_concrete, app.s, app.EI_eff, app.gamma_concrete)
        IN  \A name \in ResultsShown : app[name] = lib[name]

\* C13: if a geometric or material input is zero or negative, the
\* calculation is rejected with a domain error naming that input before any
\* formula is evaluated: no section property, gamma, offset, EI_eff, stress
\* or deflection exists or is shown, and the script is past its inputs only
\* as rejected, with the error on the page.
C13_InvalidInputRejected ==
    LET invalid == {name \in {"E_timber_g", "E_concrete_g", "h_timber", "b_timber",
                              "h_concrete", "b_concrete", "s", "k_ser", "L"}
                             \cap DOMAIN app : ~QPos(app[name])}
        values == PropertiesShown \cup ResultsShown
                      \cup {"delta_x_left", "delta_x_right"}
    IN  invalid # {} =>
            /\ DOMAIN app \cap values = {}
            /\ shown \cap values = {}
            /\ app_pc \in {"inputs", "rejected"}
            /\ app_pc = "rejected" => \E name \in invalid : <<"DomainError", name>> \in shown

\* C14: a gamma_concrete outside (0, 1] does not crash the run and is not
\* used silently: the script is never stopped by an exception, and once the
\* value is used for the neutral axis or shown, a warning about it is on the
\* page.
C14_OutOfRangeGammaFlagged ==
    ("gamma_concrete" \in DOMAIN app
        /\ ~(QPos(app.gamma_concrete) /\ QLe(app.gamma_concrete, QInt(1)))) =>
            /\ app_pc # "stopped"
            /\ ("a_timber" \in DOMAIN app \/ "gamma_concrete" \in shown) =>
                   <<"Warning", "gamma_concrete">> \in shown

\* C19: generating the report assigns no input and no calculated value:
\* whether generate_pdf returns or raises, every module-level value is the
\* same afterwards, and when it starts every property and result has
\* already been calculated and shown (and stays shown).
C19_ReportOnlyReads ==
    [][(App_generate_pdf \/ App_generate_pdf_raises) =>
           /\ app' = app
           /\ PropertiesShown \cup ResultsShown \subseteq DOMAIN app
           /\ PropertiesShown \cup ResultsShown \subseteq shown
           /\ shown \subseteq shown']_vars

\* all inputs 1: a_timber = 16/103 was calculated and shown, and the report
\* offered for download prints it as 0.155
C19_Witness ==
    /\ app_pc = "report offered"
    /\ pdf_data.writer = "generate_pdf"
    /\ app.a_timber = Q(16, 103)
    /\ pdf_data.text.plan_a_timber = format_f(Q(16, 103), 3)
    /\ pdf_data.text.plan_a_timber.fraction = 155
    /\ "sigma_timber" \in DOMAIN app
    /\ "a_timber" \in shown

-----------------------------------------------------------------------------
(* Properties of full runs of the library, checked under PipelineSpec *)

C20_ReportPrintsRunValues ==
    "text" \in DOMAIN document =>
        LET in == runs[document.run].inputs
            out == runs[document.run].outputs
            r == out.stresses
            expected ==
                report_inputs(in.E_timber, in.E_concrete, in.h_timber, in.b_timber,
                              in.h_concrete, in.b_concrete, in.s, in.k_ser, in.P,
                              in.L)
                @@ report_plan(in.b_concrete, in.h_concrete, in.b_timber,
                               in.h_timber, out.a_timber)
                @@ report_results(r.sigma_timber, r.sigma_m_timber,
                                  r.sigma_concrete, r.sigma_m_concrete,
                                  r.M_concrete, r.N_concrete, r.tau_timber_max,
                                  r.F_connector)
        IN  \A line \in DOMAIN document.text :
                document.text[line] = expected[line]

=============================================================================
